---- MODULE Spec2Model ----
(***************************************************************************)
(* The plant-identification programs of the repository as a state machine: *)
(*   - ImprovedSklearnClassifier (server/improved-sklearn-classifier.py),   *)
(*   - SklearnPlantClassifier    (server/sklearn-plant-classifier.py),      *)
(*   - predict_plant             (inference_script.py).                     *)
(* One behaviour runs one of the three programs: the artifact files are the *)
(* environment, the constructor loads them, and every classification call  *)
(* is one action that computes the returned value together with the log of *)
(* the library calls it made.                                               *)
(*                                                                         *)
(* Python values are written as follows.  None is the record None.  A label *)
(* (an entry of a class-name table, or a value returned by model.predict)  *)
(* is a record [tag, v]: an integer label k is IntLabel(k), the i-th      *)
(* string label of a table is StrLabel(i).  A probability p is the integer *)
(* p*ProbDenom, so a confidence p*100 is the integer p*ProbDenom*100, in   *)
(* units of 1/ProbDenom percent.  Arrays are sequences; At(a, i) reads     *)
(* them with the source's 0-based index.                                   *)
(***************************************************************************)
EXTENDS Integers, Sequences, FiniteSets, TLC

VARIABLES
    program,    \* which program this behaviour runs
    files,      \* environment: which artifact files can be opened and unpickled
    clf,        \* the classifier object (self): model, pca, scaler, plant_info
    phase,      \* "new" (before __init__), "ready", "returned"
    call,       \* the inputs of the last call
    result,     \* the value the last call returned
    trace,      \* the library calls the last call made, in order
    loads,      \* the artifact files the object has tried to load, in order
    rvec,       \* reconciliation harness: the vector given
    rscaler,    \* reconciliation harness: the scaler whose width is expected
    rcur,       \* reconciliation harness: the vector after the steps in rhist
    rfirst,     \* reconciliation harness: the vector after the first step
    rhist,      \* reconciliation harness: the reconciliation steps applied
    fin,        \* extraction alone: the extraction called and its image
    raw,        \* extraction alone: the vector it built, before reconciliation
    th,         \* concurrent calls: the local state of each thread
    cfile,      \* classes file: the labels saved, the file text, the labels read
    ds,         \* synthetic dataset: the labels generated and the two parts
    fit,        \* train_model: the epochs run by the two fit calls
    cli         \* inference CLI: arguments, position, output and exit status

vars == <<program, files, clf, phase, call, result, trace, loads,
          rvec, rscaler, rcur, rfirst, rhist, fin, raw, th,
          cfile, ds, fit, cli>>

-----------------------------------------------------------------------------
(* Bounds of the model.                                                    *)

MaxClasses == 4        \* the classifier has 1..MaxClasses classes
ProbDenom == 3         \* probabilities are multiples of 1/ProbDenom
MaxWidthDelta == 1     \* scaler widths within MaxWidthDelta of the raw length
ExampleWidth == 1000   \* the spec's example: a scaler fitted for width 1000
MaxTopK == 4           \* predict_plant is called with top_k in 0..MaxTopK
MaxLen == 3            \* harness: vectors of length 0..MaxLen
MaxValue == 2          \* harness: vector entries in 0..MaxValue
MaxExpected == 4       \* harness: expected lengths 1..MaxExpected
MaxSteps == 2          \* harness: reconciliation steps applied in a row
MaxSide == 4           \* extraction alone: source images of 1..MaxSide pixels a side
MaxNameLen == 2        \* classes file: directory names of 1..MaxNameLen characters
MaxDirs == 2           \* classes file: 1..MaxDirs class directories

(* Constants of the programs.                                              *)

img_size == 64         \* improved-sklearn-classifier.py:81
IMG_SIZE_PLAIN == 128  \* sklearn-plant-classifier.py:71, resize to (128, 128)
TOP_N == 3             \* the [-3:] of both sklearn classifiers
DEFAULT_TOP_K == 5     \* predict_plant(..., top_k=5)
NUM_CLASS_NAMES == 74  \* len(SklearnPlantClassifier.class_names)
NUM_CLASSES == 10      \* efficient_10_plant_training.py:17, demo_train_10_plants.py:19
samples_per_class == 20  \* efficient_10_plant_training.py:38
images_per_class == 50   \* demo_train_10_plants.py:127
EPOCHS == 50           \* train_plant_classifier.py:18
patience == 10         \* train_plant_classifier.py:123, EarlyStopping
fine_tune_epochs == 10 \* train_plant_classifier.py:163

-----------------------------------------------------------------------------
(* Python values.                                                          *)

None == [tag |-> "None"]
IntLabel(k) == [tag |-> "int", v |-> k]
StrLabel(i) == [tag |-> "str", v |-> i]
Text(s, i) == [tag |-> s, v |-> i]

Min(a, b) == IF a < b THEN a ELSE b
Max(a, b) == IF a > b THEN a ELSE b

\* a[i] with a 0-based non-negative index i < len(a)
At(a, i) == a[i + 1]

\* a[start:] with Python's slice rule: a negative start counts from the end,
\* and both ends are clamped to the array
SliceFrom(a, start) ==
    LET n == Len(a)
        s == IF start < 0 THEN Max(n + start, 0) ELSE Min(start, n)
    IN  SubSeq(a, s + 1, n)

\* a[::-1]
Reversed(a) == [i \in 1..Len(a) |-> a[Len(a) + 1 - i]]

\* np.zeros((1, k))
Zeros(k) == [i \in 1..k |-> 0]

-----------------------------------------------------------------------------
(* The artifact files and what unpickling them gives.                      *)

ArtifactNames == {"Best_Model.pkl", "pca.pkl", "scaler.pkl", "plant_info_trained.json"}

Programs == {"improved", "plain", "inference"}

\* 3*R*R RGB values, 6 HSV, 6 LAB and 4 Sobel statistics
RawLength(R) == 3 * R * R + 16

ResizeOf(p) == IF p = "plain" THEN IMG_SIZE_PLAIN ELSE img_size

\* The widths a pickled scaler may have been fitted on.
ScalerWidths(p) ==
    {1, ExampleWidth} \cup
    { RawLength(ResizeOf(p)) + d : d \in (0 - MaxWidthDelta)..MaxWidthDelta }

\* A scaler: the width it was fitted on, and whether the unpickled object has
\* the attribute n_features_in_ (objects pickled by an older scikit-learn do not).
Scalers(p) ==
    [tag : {"scaler"}, width : ScalerWidths(p), has_n_features_in : BOOLEAN]

\* A PCA fitted on the scaler's output.
PcaFor(s) == [tag |-> "pca", width |-> s.width]

\* classes_ of a classifier with n classes: labels 0..n-1, labels 1..n,
\* n strings, or no attribute classes_ at all.
LabelKinds == {"range0", "range1", "str", "absent"}

Models == [tag : {"model"}, n : 1..MaxClasses, labels : LabelKinds]

-----------------------------------------------------------------------------
(* Images.  cv2.imread gives None for a file that is missing, corrupt or   *)
(* no image.  The picture of a decodable file is either one colour, and    *)
(* then every OpenCV conversion of every pixel is known exactly, or        *)
(* "varied": any picture whose pixels differ.  An entry computed from a    *)
(* varied picture is not a number but the name of the computation that     *)
(* gives it: which array, which position or channel, which statistic.      *)
(* The HSV and LAB triples are OpenCV's 8-bit encodings (H in 0..179; L    *)
(* scaled to 0..255, a and b offset by 128).                               *)

Colors == {"black", "red"}

BGR(c) == CASE c = "black" -> <<0, 0, 0>>
            [] c = "red"   -> <<0, 0, 255>>

\* cv2.cvtColor(img, cv2.COLOR_BGR2RGB) of one pixel
RGB(c) == Reversed(BGR(c))

\* cv2.cvtColor(img, cv2.COLOR_BGR2HSV) of one pixel
HSV(c) == CASE c = "black" -> <<0, 0, 0>>
            [] c = "red"   -> <<0, 255, 255>>

\* cv2.cvtColor(img, cv2.COLOR_BGR2LAB) of one pixel
LAB(c) == CASE c = "black" -> <<0, 128, 128>>
            [] c = "red"   -> <<136, 208, 195>>

\* cv2.cvtColor(img, cv2.COLOR_BGR2GRAY) of one pixel: 0.299 R + 0.587 G + 0.114 B
GRAY(c) == CASE c = "black" -> <<0>>
             [] c = "red"   -> <<76>>

\* The image files given to the classifiers: [decodable, color, height, width]
Images == {[decodable |-> FALSE, color |-> "none", height |-> 0, width |-> 0]} \cup
          [decodable : {TRUE}, color : Colors, height : {MaxSide}, width : {MaxSide}]

\* A numpy array holding an image: its shape (rows, columns, channels; a
\* grey or Sobel image has no channel axis), the colour space of its
\* entries and the picture it shows.
ndarray(shape, space, picture) ==
    [tag |-> "ndarray", shape |-> shape, space |-> space, picture |-> picture]

channels(a) == IF Len(a.shape) = 3 THEN a.shape[3] ELSE 1

\* cv2.imread(image_path): None, or the decoded BGR image
imread(image) ==
    IF image.decodable
    THEN ndarray(<<image.height, image.width, 3>>, "BGR", image.color)
    ELSE None

\* cv2.resize(img, (width, height)): one colour stays that colour, a varied
\* picture stays varied
resize(img, dsize) == [img EXCEPT !.shape = <<dsize[2], dsize[1], img.shape[3]>>]

\* cv2.cvtColor(img, code), code one of COLOR_BGR2RGB, _BGR2HSV, _BGR2LAB,
\* _BGR2GRAY
cvtColor(img, space) ==
    [img EXCEPT !.space = space,
                !.shape = IF space = "GRAY" THEN <<img.shape[1], img.shape[2]>>
                          ELSE img.shape]

\* cv2.Sobel(gray, cv2.CV_64F, dx, dy, ksize=3)
Sobel(gray, dx, dy) == [gray EXCEPT !.space = IF dx = 1 THEN "Sobel_x" ELSE "Sobel_y"]

\* Every pixel of an array showing one colour: the Sobel response of a
\* constant image is 0 everywhere (the border is mirrored).
pixel_of(a) ==
    CASE a.space = "BGR"  -> BGR(a.picture)
      [] a.space = "RGB"  -> RGB(a.picture)
      [] a.space = "HSV"  -> HSV(a.picture)
      [] a.space = "LAB"  -> LAB(a.picture)
      [] a.space = "GRAY" -> GRAY(a.picture)
      [] a.space \in {"Sobel_x", "Sobel_y"} -> <<0>>

\* a[row, col, ch]
element(a, row, col, ch) ==
    IF a.picture \in Colors THEN pixel_of(a)[ch + 1]
    ELSE [of |-> a.space, stat |-> "element", row |-> row, col |-> col, channel |-> ch]

\* A statistic over all rows and columns of channel ch of a varied picture
statistic(a, stat, ch) ==
    [of |-> a.space, stat |-> stat, row |-> -1, col |-> -1, channel |-> ch]

\* a.mean(axis=(0,1)) and a.std(axis=(0,1)): one entry a channel
mean_axis01(a) ==
    [c \in 1..channels(a) |->
        IF a.picture \in Colors THEN pixel_of(a)[c] ELSE statistic(a, "mean", c - 1)]
std_axis01(a) ==
    [c \in 1..channels(a) |->
        IF a.picture \in Colors THEN 0 ELSE statistic(a, "std", c - 1)]

\* a.mean() and a.std() of an array without channel axis
mean(a) == mean_axis01(a)[1]
std(a) == std_axis01(a)[1]

-----------------------------------------------------------------------------
(* Exceptions and the calls into the unpickled objects.                    *)

Exc(type, msg) == [tag |-> "exception", type |-> type, msg |-> msg]
Returned(value) == [tag |-> "returned", value |-> value]
Raised(r) == r.tag = "exception"

Array(data) == [tag |-> "array", data |-> data]
Event(stage, arg) == [stage |-> stage, arg |-> arg]

\* A stage of the pipeline that the environment makes fail: an unpickled
\* object of another library version may raise from any of its methods.
Faults == {"none", "scaler", "pca", "predict", "predict_proba"}

\* getattr(self.scaler, 'n_features_in_', default)
n_features_in(scaler, default) ==
    IF scaler # None /\ scaler.has_n_features_in THEN IntLabel(scaler.width)
    ELSE default

\* Python's truth value of an int-or-None
Truthy(x) == x # None /\ x.v # 0

\* self.scaler.transform(features): the width of its output, or what it
\* raises.  A scaler with n_features_in_ checks the width; without it the
\* width is only checked by the broadcast of X - mean_, which numpy also
\* accepts when mean_ has a single entry.
scaler_transform(scaler, features, fault) ==
    IF scaler = None
    THEN Exc("AttributeError", "'NoneType' object has no attribute 'transform'")
    ELSE IF fault = "scaler"
    THEN Exc("AttributeError", "scaler object is not usable")
    ELSE IF Len(features) = scaler.width
    THEN Returned(Len(features))
    ELSE IF ~scaler.has_n_features_in /\ scaler.width = 1
    THEN Returned(Len(features))
    ELSE Exc("ValueError", "feature count does not match the fitted scaler")

\* self.pca.transform(features_scaled) on an input of the given width
pca_transform(pca, width, fault) ==
    IF pca = None
    THEN Exc("AttributeError", "'NoneType' object has no attribute 'transform'")
    ELSE IF fault = "pca"
    THEN Exc("AttributeError", "pca object is not usable")
    ELSE IF width # pca.width
    THEN Exc("ValueError", "feature count does not match the fitted pca")
    ELSE Returned(pca.width)

-----------------------------------------------------------------------------
(* Construction: __init__, load_models, load_plant_info.                   *)

\* What pickle.load gives for the three files of a program.
Pickles(p) ==
    { [model |-> m, pca |-> PcaFor(s), scaler |-> s] : m \in Models, s \in Scalers(p) }

\* An attempt to open and load an artifact file.
LoadEvent(f) == Event("load " \o f, 0)

\* A variant with a fault: the handler does not reset self.model, so the
\* object keeps whatever was loaded before the failing load.
load_models_keeps_model(self, fs, pk) ==
    LET s1 == [self EXCEPT !.model = pk.model]
        s2 == [s1 EXCEPT !.pca = pk.pca]
        s3 == [s2 EXCEPT !.scaler = pk.scaler]
        l1 == <<LoadEvent("Best_Model.pkl")>>
        l2 == l1 \o <<LoadEvent("pca.pkl")>>
        l3 == l2 \o <<LoadEvent("scaler.pkl")>>
    IN  IF ~fs["Best_Model.pkl"]
        THEN [self |-> self, value |-> FALSE, loads |-> l1]
        ELSE IF ~fs["pca.pkl"]
        THEN [self |-> s1, value |-> FALSE, loads |-> l2]
        ELSE IF ~fs["scaler.pkl"]
        THEN [self |-> s2, value |-> FALSE, loads |-> l3]
        ELSE [self |-> s3, value |-> TRUE, loads |-> l3]

\* ImprovedSklearnClassifier.load_models: the three loads in order inside one
\* try; the handler resets only self.model.  [self, value, loads]: the
\* object after the call, the value returned and the loads attempted.
load_models(self, fs, pk) ==
    LET s1 == [self EXCEPT !.model = pk.model]
        s2 == [s1 EXCEPT !.pca = pk.pca]
        s3 == [s2 EXCEPT !.scaler = pk.scaler]
        l1 == <<LoadEvent("Best_Model.pkl")>>
        l2 == l1 \o <<LoadEvent("pca.pkl")>>
        l3 == l2 \o <<LoadEvent("scaler.pkl")>>
    IN  IF ~fs["Best_Model.pkl"]
        THEN [self |-> [self EXCEPT !.model = None], value |-> FALSE, loads |-> l1]
        ELSE IF ~fs["pca.pkl"]
        THEN [self |-> [s1 EXCEPT !.model = None], value |-> FALSE, loads |-> l2]
        ELSE IF ~fs["scaler.pkl"]
        THEN [self |-> [s2 EXCEPT !.model = None], value |-> FALSE, loads |-> l3]
        ELSE [self |-> s3, value |-> TRUE, loads |-> l3]

\* ImprovedSklearnClassifier.load_plant_info
load_plant_info(self, fs) ==
    IF fs["plant_info_trained.json"]
    THEN [self EXCEPT !.plant_info = "loaded"]
    ELSE [self EXCEPT !.plant_info = "empty"]

\* A variant with a fault: load_plant_info runs only when load_models
\* returned True.
init_improved_only_when_loaded(fs, pk) ==
    LET self == [model |-> None, pca |-> None, scaler |-> None, plant_info |-> "empty"]
        loaded == load_models(self, fs, pk)
    IN  IF loaded.value
        THEN [self |-> load_plant_info(loaded.self, fs),
              loads |-> loaded.loads \o <<LoadEvent("plant_info_trained.json")>>]
        ELSE [self |-> loaded.self, loads |-> loaded.loads]

\* ImprovedSklearnClassifier.__init__: [self, loads]
init_improved(fs, pk) ==
    LET self == [model |-> None, pca |-> None, scaler |-> None, plant_info |-> "empty"]
        loaded == load_models(self, fs, pk)
    IN  [self |-> load_plant_info(loaded.self, fs),
         loads |-> loaded.loads \o <<LoadEvent("plant_info_trained.json")>>]

\* SklearnPlantClassifier.load_models: the same loads, no return value
load_models_plain(self, fs, pk) ==
    LET loaded == load_models(self, fs, pk)
    IN  [self |-> loaded.self, loads |-> loaded.loads]

\* SklearnPlantClassifier.__init__: [self, loads] (class_names is the fixed
\* table of NUM_CLASS_NAMES plant names; plant_info is no field of this
\* class)
init_plain(fs, pk) ==
    LET self == [model |-> None, pca |-> None, scaler |-> None, plant_info |-> "absent"]
    IN  load_models_plain(self, fs, pk)

-----------------------------------------------------------------------------
(* Feature extraction and length reconciliation.                           *)

\* The entries of an array of n entries whose pixels are all `pixel`
flatten_one_colour(pixel, n) == [i \in 1..n |-> pixel[((i - 1) % Len(pixel)) + 1]]

\* a.flatten(): row-major, the channels of a pixel next to each other
flatten(a) ==
    LET ch == channels(a)
        n == a.shape[1] * a.shape[2] * ch
    IN  IF a.picture \in Colors THEN flatten_one_colour(pixel_of(a), n)
        ELSE [i \in 1..n |->
                element(a, ((i - 1) \div ch) \div a.shape[2],
                           ((i - 1) \div ch) % a.shape[2], (i - 1) % ch)]

\* A variant with a fault: the LAB statistics come before the HSV ones.
feature_list_lab_first(img) ==
    LET rgb_img == cvtColor(img, "RGB")
        hsv_img == cvtColor(img, "HSV")
        lab_img == cvtColor(img, "LAB")
        gray    == cvtColor(img, "GRAY")
        sobelx  == Sobel(gray, 1, 0)
        sobely  == Sobel(gray, 0, 1)
    IN  flatten(rgb_img)
            \o mean_axis01(lab_img) \o std_axis01(lab_img)
            \o mean_axis01(hsv_img) \o std_axis01(hsv_img)
            \o <<mean(sobelx), std(sobelx), mean(sobely), std(sobely)>>

\* The feature list of lines 84-106 (lines 74-96 of the plain classifier),
\* img being the resized image: RGB pixels, HSV mean and std, LAB mean and
\* std, Sobel-x mean and std, Sobel-y mean and std.
feature_list(img) ==
    LET rgb_img == cvtColor(img, "RGB")
        hsv_img == cvtColor(img, "HSV")
        lab_img == cvtColor(img, "LAB")
        gray    == cvtColor(img, "GRAY")
        sobelx  == Sobel(gray, 1, 0)
        sobely  == Sobel(gray, 0, 1)
    IN  flatten(rgb_img)
            \o mean_axis01(hsv_img) \o std_axis01(hsv_img)
            \o mean_axis01(lab_img) \o std_axis01(lab_img)
            \o <<mean(sobelx), std(sobelx), mean(sobely), std(sobely)>>

\* A variant with a fault: truncation keeps the last entries,
\* features_array[:, -scaler_expected:].
truncate_or_pad_keep_tail(features_array, scaler_expected) ==
    IF Truthy(scaler_expected) /\ Len(features_array) > scaler_expected.v
    THEN SubSeq(features_array, Len(features_array) - scaler_expected.v + 1,
                Len(features_array))
    ELSE IF Truthy(scaler_expected) /\ Len(features_array) < scaler_expected.v
    THEN features_array \o Zeros(scaler_expected.v - Len(features_array))
    ELSE features_array

\* Lines 109-117: truncate to, or zero-pad to, scaler_expected, when
\* scaler_expected is neither None nor 0.
truncate_or_pad(features_array, scaler_expected) ==
    IF Truthy(scaler_expected) /\ Len(features_array) > scaler_expected.v
    THEN SubSeq(features_array, 1, scaler_expected.v)
    ELSE IF Truthy(scaler_expected) /\ Len(features_array) < scaler_expected.v
    THEN features_array \o Zeros(scaler_expected.v - Len(features_array))
    ELSE features_array

\* A variant with a fault: the padding has expected entries, not the
\* missing ones.
truncate_or_pad_on_error_overpad(features, scaler) ==
    LET expected == n_features_in(scaler, IntLabel(Len(features))).v
    IN  IF Len(features) > expected
        THEN SubSeq(features, 1, expected)
        ELSE IF Len(features) < expected
        THEN features \o Zeros(expected)
        ELSE features

\* Lines 146-151, the ValueError handler: expected is n_features_in_, or the
\* vector's own length when the scaler has no such attribute.
truncate_or_pad_on_error(features, scaler) ==
    LET expected == n_features_in(scaler, IntLabel(Len(features))).v
    IN  IF Len(features) > expected
        THEN SubSeq(features, 1, expected)
        ELSE IF Len(features) < expected
        THEN features \o Zeros(expected - Len(features))
        ELSE features

\* A variant with a fault: an unreadable image gives an empty feature list
\* instead of an error.
extract_features_robust_blank(self, image_path) ==
    LET features_array == truncate_or_pad(
                   IF imread(image_path) = None THEN <<>>
                   ELSE feature_list(resize(imread(image_path), <<img_size, img_size>>)),
                   n_features_in(self.scaler, None))
    IN  [value |-> Array(features_array),
         trace |-> <<Event("cv2.imread", 0), Event("reconcile", Len(features_array))>>]

\* ImprovedSklearnClassifier.extract_features_robust: [value, trace], value
\* None when the image cannot be read (the ValueError is caught inside).
\* The trace has the decode and then the reconciliation of lines 109-117
\* with the length it leaves.
extract_features_robust(self, image_path) ==
    LET img == imread(image_path)
        scaler_expected == n_features_in(self.scaler, None)
    IN  IF img = None
        THEN [value |-> None, trace |-> <<Event("cv2.imread", 0)>>]
        ELSE LET resized == resize(img, <<img_size, img_size>>)
                 features_array == truncate_or_pad(feature_list(resized), scaler_expected)
             IN  [value |-> Array(features_array),
                  trace |-> <<Event("cv2.imread", 0),
                              Event("reconcile", Len(features_array))>>]

\* SklearnPlantClassifier.extract_features: no reconciliation
extract_features(self, image_path) ==
    LET img == imread(image_path)
    IN  IF img = None
        THEN [value |-> None, trace |-> <<Event("cv2.imread", 0)>>]
        ELSE [value |-> Array(feature_list(resize(img, <<IMG_SIZE_PLAIN, IMG_SIZE_PLAIN>>))),
              trace |-> <<Event("cv2.imread", 0)>>]

-----------------------------------------------------------------------------
(* Probabilities, np.argmax and np.argsort.                                *)

RECURSIVE Sum(_)
Sum(a) == IF a = <<>> THEN 0 ELSE Head(a) + Sum(Tail(a))

\* What predict_proba (or the network's softmax) may return for n classes.
ProbArrays(n) == { p \in [1..n -> 0..ProbDenom] : Sum(p) = ProbDenom }

MaxOf(a) == CHOOSE m \in { a[i] : i \in 1..Len(a) } : \A i \in 1..Len(a) : a[i] <= m

\* np.argmax(a): the first index holding the maximum
argmax(a) == CHOOSE i \in 0..(Len(a) - 1) :
                /\ At(a, i) = MaxOf(a)
                /\ \A j \in 0..(i - 1) : At(a, j) < MaxOf(a)

\* np.argsort(a) with the default kind: the indices in ascending order of
\* value.  The default sort is not stable, so the order among equal values
\* is whatever the numpy build produces: every ascending arrangement of the
\* index set S is an outcome.
RECURSIVE AscendingOrders(_, _)
AscendingOrders(a, S) ==
    IF S = {} THEN {<<>>}
    ELSE LET least == { i \in S : \A j \in S : At(a, i) <= At(a, j) }
         IN  UNION { { <<i>> \o rest : rest \in AscendingOrders(a, S \ {i}) } : i \in least }

argsort(a) == AscendingOrders(a, 0..(Len(a) - 1))

\* A variant with a fault: the [::-1] is missing.
top_indices_of_unreversed(order, k) == SliceFrom(order, 0 - k)

\* np.argsort(probabilities)[-k:][::-1], given the outcome of the argsort
top_indices_of(order, k) == Reversed(SliceFrom(order, 0 - k))

-----------------------------------------------------------------------------
(* The classifier object's calls.                                          *)

\* model.classes_ of an unpickled classifier
classes_(model) ==
    [i \in 1..model.n |->
        CASE model.labels = "range0" -> IntLabel(i - 1)
          [] model.labels = "range1" -> IntLabel(i)
          [] model.labels = "str"    -> StrLabel(i - 1)
          [] model.labels = "absent" -> IntLabel(i - 1)]

\* model.predict(features_pca)[0]: the label of the most probable class
model_predict(model, env) ==
    IF env.fault = "predict"
    THEN Exc("AttributeError", "model object is not usable")
    ELSE Returned(At(classes_(model), argmax(env.probabilities)))

\* model.predict_proba(features_pca)[0]
model_predict_proba(model, env) ==
    IF env.fault = "predict_proba"
    THEN Exc("AttributeError", "model has no predict_proba")
    ELSE Returned(env.probabilities)

\* The inputs of a call that the unpickled model and numpy decide: the stage
\* made to fail, the probabilities of the image, the outcome of np.argsort.
\* Nothing of a failed call's result depends on the probabilities, so a
\* failing stage comes with one probability array only.
Envs(n) ==
    LET certain == [i \in 1..n |-> IF i = 1 THEN ProbDenom ELSE 0]
    IN  [fault : Faults \ {"none"}, probabilities : {certain}, order : argsort(certain)]
        \cup UNION { [fault : {"none"}, probabilities : {p}, order : argsort(p)] :
                     p \in ProbArrays(n) }

NoEnv == [fault |-> "none", probabilities |-> <<>>, order |-> <<>>]

-----------------------------------------------------------------------------
(* Returned values.  keys is the set of keys of the returned dict; a field  *)
(* whose key is absent holds a placeholder.  An entry of top_predictions    *)
(* carries the class index it was built from ('index' is a key only in      *)
(* predict_plant's entries, whose label key is 'class', not 'plant').       *)

Failure(msg) ==
    [tag |-> "dict", keys |-> {"success", "error"}, success |-> FALSE,
     error |-> msg, predicted_class |-> None, confidence |-> 0,
     top_predictions |-> <<>>]

NoResult ==
    [tag |-> "none", keys |-> {}, success |-> FALSE, error |-> "",
     predicted_class |-> None, confidence |-> 0, top_predictions |-> <<>>]

\* Lines 162-163: getattr(self.model, 'classes_', ['class_0', 'class_1', ...])
class_names_of(model, probabilities) ==
    IF model.labels = "absent"
    THEN [i \in 1..Len(probabilities) |-> Text("class_", i - 1)]
    ELSE classes_(model)

\* Lines 161-180 of classify_image_safe: the result dict, or what building
\* it raises.
result_improved(model, prediction, probabilities, order) ==
    LET class_names == class_names_of(model, probabilities)
        top_indices == top_indices_of(order, TOP_N)
    IN  IF prediction.tag = "str"
        THEN Exc("TypeError", "'<' not supported between instances of 'str' and 'int'")
        ELSE IF prediction.v >= Len(probabilities)
        THEN Exc("IndexError", "index is out of bounds")
        ELSE Returned(
            [tag |-> "dict",
             keys |-> {"success", "predicted_class", "confidence",
                       "top_predictions", "model_type"},
             success |-> TRUE,
             error |-> "",
             predicted_class |-> IF prediction.v < Len(class_names)
                                 THEN At(class_names, prediction.v)
                                 ELSE Text("unknown", 0),
             confidence |-> At(probabilities, prediction.v) * 100,
             top_predictions |->
                [k \in 1..Len(top_indices) |->
                    [plant |-> IF top_indices[k] < Len(class_names)
                               THEN At(class_names, top_indices[k])
                               ELSE Text("class_", top_indices[k]),
                     confidence |-> At(probabilities, top_indices[k]) * 100,
                     index |-> top_indices[k]]]])

\* A variant with a fault: the handler of line 144 catches every exception.
except_any_Exception(r) == Raised(r)

\* Line 144, except ValueError: whether the handler takes what the first
\* scaler.transform gave.
except_ValueError(r) == Raised(r) /\ r.type = "ValueError"

\* The outer handler of classify_image_safe, lines 184-188
classification_failed(e) == Failure("Classification failed: " \o e.msg)

\* The try block of classify_image_safe, lines 133-188: [value, trace].  ext
\* is the call self.extract_features_robust(image_path) of line 134.
classify_loaded(self, ext, env) ==
    IF ext.value = None
    THEN [value |-> Failure("Feature extraction failed"), trace |-> ext.trace]
    ELSE
    LET features == ext.value.data
        first    == scaler_transform(self.scaler, features, env.fault)
        t1       == ext.trace \o <<Event("scaler.transform", Len(features))>>
        again    == except_ValueError(first)
        fixed    == truncate_or_pad_on_error(features, self.scaler)
        scaled   == IF again THEN scaler_transform(self.scaler, fixed, env.fault) ELSE first
        t2       == IF again
                    THEN t1 \o <<Event("reconcile", Len(fixed)),
                                 Event("scaler.transform", Len(fixed))>>
                    ELSE t1
    IN  IF Raised(scaled) THEN [value |-> classification_failed(scaled), trace |-> t2]
    ELSE
    LET reduced == pca_transform(self.pca, scaled.value, env.fault)
        t3      == t2 \o <<Event("pca.transform", scaled.value)>>
    IN  IF Raised(reduced) THEN [value |-> classification_failed(reduced), trace |-> t3]
    ELSE
    LET prediction == model_predict(self.model, env)
        t4         == t3 \o <<Event("model.predict", reduced.value)>>
    IN  IF Raised(prediction) THEN [value |-> classification_failed(prediction), trace |-> t4]
    ELSE
    LET probabilities == model_predict_proba(self.model, env)
        t5            == t4 \o <<Event("model.predict_proba", reduced.value)>>
    IN  IF Raised(probabilities) THEN [value |-> classification_failed(probabilities), trace |-> t5]
    ELSE
    LET built == result_improved(self.model, prediction.value, probabilities.value, env.order)
    IN  IF Raised(built) THEN [value |-> classification_failed(built), trace |-> t5]
        ELSE [value |-> built.value, trace |-> t5]

\* A variant with a fault: no check that the models are loaded, and the
\* scaling outside the try block, so that the AttributeError of
\* None.transform leaves the function.
classify_image_safe_unprotected(self, ext, env) ==
    LET out == IF self.model = None /\ ext.value # None
               THEN [value |-> Exc("AttributeError",
                                   "'NoneType' object has no attribute 'transform'"),
                     trace |-> ext.trace]
               ELSE classify_loaded(self, ext, env)
    IN  [value |-> out.value, trace |-> out.trace, self |-> self]

\* A variant with a fault: a call that finds no model tries to load it
\* again.
classify_image_safe_reloads(self, ext, env) ==
    LET out == IF self.model = None
               THEN [value |-> Failure("Models not loaded"),
                     trace |-> <<LoadEvent("Best_Model.pkl")>>]
               ELSE classify_loaded(self, ext, env)
    IN  [value |-> out.value, trace |-> out.trace, self |-> self]

\* A variant with a fault: the outer handler resets self.model, as the
\* handler of load_models does.
classify_image_safe_resets_model(self, ext, env) ==
    LET out == IF self.model = None
               THEN [value |-> Failure("Models not loaded"), trace |-> <<>>]
               ELSE classify_loaded(self, ext, env)
        caught == self.model # None /\ ext.value # None /\ ~out.value.success
    IN  [value |-> out.value, trace |-> out.trace,
         self |-> IF caught THEN [self EXCEPT !.model = None] ELSE self]

\* A variant with a fault: the features are extracted before the model is
\* checked, so an unreadable image is reported first.
classify_image_safe_extracts_first(self, ext, env) ==
    LET out == IF ext.value = None
               THEN [value |-> Failure("Feature extraction failed"), trace |-> ext.trace]
               ELSE IF self.model = None
               THEN [value |-> Failure("Models not loaded"), trace |-> ext.trace]
               ELSE classify_loaded(self, ext, env)
    IN  [value |-> out.value, trace |-> out.trace, self |-> self]

\* ImprovedSklearnClassifier.classify_image_safe: [value, trace, self], the
\* object after the call being the object before it, since no statement of
\* lines 64-188 assigns to an attribute of self.  The features are
\* extracted only once the model is known to be loaded.
classify_image_safe(self, ext, env) ==
    LET out == IF self.model = None
               THEN [value |-> Failure("Models not loaded"), trace |-> <<>>]
               ELSE classify_loaded(self, ext, env)
    IN  [value |-> out.value, trace |-> out.trace, self |-> self]

\* Lines 123-136 of classify_image: the result dict (it has no 'success'
\* key), or what building it raises.  class_names is the fixed table, whose
\* i-th entry is written Text("plant", i).
result_plain(prediction, probabilities, order) ==
    LET top_indices == top_indices_of(order, TOP_N)
    IN  IF prediction.tag = "str"
        THEN Exc("TypeError", "list indices must be integers or slices, not numpy.str_")
        ELSE IF prediction.v >= NUM_CLASS_NAMES
        THEN Exc("IndexError", "list index out of range")
        ELSE IF prediction.v >= Len(probabilities)
        THEN Exc("IndexError", "index is out of bounds")
        ELSE IF \E k \in 1..Len(top_indices) : top_indices[k] >= NUM_CLASS_NAMES
        THEN Exc("IndexError", "list index out of range")
        ELSE Returned(
            [tag |-> "dict",
             keys |-> {"predicted_class", "confidence", "top_predictions"},
             success |-> FALSE,
             error |-> "",
             predicted_class |-> Text("plant", prediction.v),
             confidence |-> At(probabilities, prediction.v) * 100,
             top_predictions |->
                [k \in 1..Len(top_indices) |->
                    [plant |-> Text("plant", top_indices[k]),
                     confidence |-> At(probabilities, top_indices[k]) * 100,
                     index |-> top_indices[k]]]])

\* Lines 102-142 of classify_image: [value, trace]; every failure returns
\* None.  ext is the call self.extract_features(image_path).
classify_image_body(self, ext, env) ==
    IF self.model = None
    THEN [value |-> None, trace |-> <<>>]
    ELSE IF ext.value = None
    THEN [value |-> None, trace |-> ext.trace]
    ELSE
    LET features == ext.value.data
        scaled   == scaler_transform(self.scaler, features, env.fault)
        t1       == ext.trace \o <<Event("scaler.transform", Len(features))>>
    IN  IF Raised(scaled) THEN [value |-> None, trace |-> t1]
    ELSE
    LET reduced == pca_transform(self.pca, scaled.value, env.fault)
        t2      == t1 \o <<Event("pca.transform", scaled.value)>>
    IN  IF Raised(reduced) THEN [value |-> None, trace |-> t2]
    ELSE
    LET prediction == model_predict(self.model, env)
        t3         == t2 \o <<Event("model.predict", reduced.value)>>
    IN  IF Raised(prediction) THEN [value |-> None, trace |-> t3]
    ELSE
    LET probabilities == model_predict_proba(self.model, env)
        t4            == t3 \o <<Event("model.predict_proba", reduced.value)>>
    IN  IF Raised(probabilities) THEN [value |-> None, trace |-> t4]
    ELSE
    LET built == result_plain(prediction.value, probabilities.value, env.order)
    IN  IF Raised(built) THEN [value |-> None, trace |-> t4]
        ELSE [value |-> built.value, trace |-> t4]

\* SklearnPlantClassifier.classify_image: [value, trace, self]; no statement
\* of lines 62-142 assigns to an attribute of self.
classify_image(self, ext, env) ==
    LET out == classify_image_body(self, ext, env)
    IN  [value |-> out.value, trace |-> out.trace, self |-> self]

-----------------------------------------------------------------------------
(* inference_script.py.  A model path is [loadable, n]: whether Keras loads *)
(* it and the number of outputs of the network; a classes path is          *)
(* [readable, lines]: whether it opens and how many lines it has.  The     *)
(* i-th line, stripped, is written Text("line", i).                        *)

ModelPaths ==
    {[loadable |-> FALSE, n |-> 1]} \cup [loadable : {TRUE}, n : 1..MaxClasses]
ClassesPaths ==
    {[readable |-> FALSE, lines |-> 0]} \cup
    [readable : {TRUE}, lines : 0..(MaxClasses + 1)]
TopKs == 0..MaxTopK \cup {DEFAULT_TOP_K}

\* load_model_and_classes
load_model_and_classes(model_path, classes_path) ==
    IF ~model_path.loadable
    THEN Exc("Exception", "Failed to load model: " \o "file is not a saved model")
    ELSE IF ~classes_path.readable
    THEN Exc("Exception", "Failed to load model: " \o "No such file or directory")
    ELSE Returned([model |-> [tag |-> "keras", n |-> model_path.n],
                   class_names |-> [i \in 1..classes_path.lines |-> Text("line", i - 1)]])

\* preprocess_image
preprocess_image(image_path) ==
    IF ~image_path.decodable
    THEN Exc("Exception", "Failed to preprocess image: " \o "cannot identify image file")
    ELSE Returned(Array(<<IMG_SIZE_PLAIN, IMG_SIZE_PLAIN, 3>>))

\* A variant with a fault: the handler reports a placeholder label instead
\* of None.
prediction_failed_placeholder_label(e) ==
    [tag |-> "dict",
     keys |-> {"success", "error", "predicted_class", "confidence", "top_predictions"},
     success |-> FALSE, error |-> e.msg, predicted_class |-> Text("unknown", 0),
     confidence |-> 0, top_predictions |-> <<>>]

\* A variant with a fault: the handler raises the exception again.
prediction_failed_reraises(e) == e

\* The handler of predict_plant, lines 95-102
prediction_failed(e) ==
    [tag |-> "dict",
     keys |-> {"success", "error", "predicted_class", "confidence", "top_predictions"},
     success |-> FALSE, error |-> e.msg, predicted_class |-> None,
     confidence |-> 0, top_predictions |-> <<>>]

\* predict_plant: [value, trace]
predict_plant(image_path, model_path, classes_path, top_k, env) ==
    LET loaded == load_model_and_classes(model_path, classes_path)
        t1     == <<Event("load_model", 0)>>
    IN  IF Raised(loaded) THEN [value |-> prediction_failed(loaded), trace |-> t1]
    ELSE
    LET class_names == loaded.value.class_names
        img_array   == preprocess_image(image_path)
        t2          == t1 \o <<Event("Image.open", 0)>>
    IN  IF Raised(img_array) THEN [value |-> prediction_failed(img_array), trace |-> t2]
    ELSE
    LET t3 == t2 \o <<Event("model.predict", 0)>>
    IN  IF env.fault = "predict"
        THEN [value |-> prediction_failed(Exc("ValueError", "input is incompatible with the layer")),
              trace |-> t3]
    ELSE
    LET predicted_probabilities == env.probabilities
        predicted_class_idx == argmax(predicted_probabilities)
        top_k_indices == top_indices_of(env.order, top_k)
    IN  IF \/ predicted_class_idx >= Len(class_names)
           \/ \E k \in 1..Len(top_k_indices) : top_k_indices[k] >= Len(class_names)
        THEN [value |-> prediction_failed(Exc("IndexError", "list index out of range")),
              trace |-> t3]
        ELSE [value |->
                [tag |-> "dict",
                 keys |-> {"success", "predicted_class", "confidence",
                           "top_predictions", "total_classes", "model_info"},
                 success |-> TRUE,
                 error |-> "",
                 predicted_class |-> At(class_names, predicted_class_idx),
                 confidence |-> At(predicted_probabilities, predicted_class_idx),
                 top_predictions |->
                    [k \in 1..Len(top_k_indices) |->
                        [plant |-> At(class_names, top_k_indices[k]),
                         confidence |-> At(predicted_probabilities, top_k_indices[k]),
                         index |-> top_k_indices[k]]],
                 total_classes |-> Len(class_names)],
              trace |-> t3]

-----------------------------------------------------------------------------
(* The state machine of the three programs.                                *)

NoObject == [model |-> None, pca |-> None, scaler |-> None, plant_info |-> "none"]
NoCall == [op |-> "none"]
NoFiles == [f \in ArtifactNames |-> FALSE]

NoFeatures == [tag |-> "unset"]

FeaturesIdle == fin = NoCall /\ raw = NoFeatures
FeaturesUnchanged == UNCHANGED <<fin, raw>>

ThreadsIdle == th = <<>>
ThreadsUnchanged == UNCHANGED th

ReconcileIdle ==
    /\ rvec = <<>>
    /\ rscaler = None
    /\ rcur = <<>>
    /\ rfirst = <<>>
    /\ rhist = <<>>

ReconcileUnchanged == UNCHANGED <<rvec, rscaler, rcur, rfirst, rhist>>

ClassesFileIdle == cfile = NoCall
DatasetIdle == ds = NoCall
FitIdle == fit = NoCall
CliIdle == cli = NoCall
ScriptsIdle == ClassesFileIdle /\ DatasetIdle /\ FitIdle /\ CliIdle
ScriptsUnchanged == UNCHANGED <<cfile, ds, fit, cli>>

HarnessIdle == ReconcileIdle /\ FeaturesIdle /\ ThreadsIdle /\ ScriptsIdle

HarnessUnchanged ==
    ReconcileUnchanged /\ FeaturesUnchanged /\ ThreadsUnchanged /\ ScriptsUnchanged

\* A successful result: a dict that carries a prediction and is not tagged
\* as a failure.
Succeeded(r) ==
    /\ r.tag = "dict"
    /\ "predicted_class" \in r.keys
    /\ ("success" \in r.keys => r.success)

\* What a state keeps of the environment of a call: the probabilities only
\* when they reached the result; of the sort outcome, the part that reached
\* the result is the index of each entry of top_predictions.
RecordedEnv(env, value) ==
    IF Succeeded(value) THEN [env EXCEPT !.order = <<>>]
    ELSE [env EXCEPT !.probabilities = <<>>, !.order = <<>>]

EnvsOf(model) == IF model = None THEN {NoEnv} ELSE Envs(model.n)

Init ==
    /\ program \in Programs
    /\ files \in [ArtifactNames -> BOOLEAN]
    /\ program = "inference" => files = NoFiles
    /\ program = "plain" => ~files["plant_info_trained.json"]
    /\ clf = NoObject
    /\ phase = IF program = "inference" THEN "ready" ELSE "new"
    /\ call = NoCall
    /\ result = NoResult
    /\ trace = <<>>
    /\ loads = <<>>
    /\ HarnessIdle

\* classifier = ImprovedSklearnClassifier() or SklearnPlantClassifier()
Construct ==
    /\ phase = "new"
    /\ \E pk \in Pickles(program) :
          LET out == IF program = "improved" THEN init_improved(files, pk)
                     ELSE init_plain(files, pk)
          IN  /\ clf' = out.self
              /\ loads' = out.loads
    /\ phase' = "ready"
    /\ UNCHANGED <<program, files, call, result, trace>>
    /\ HarnessUnchanged

\* classifier.classify_image_safe(image_path)
ClassifyImageSafe ==
    /\ phase = "ready"
    /\ program = "improved"
    /\ \E image \in Images :
          \E ext \in {extract_features_robust(clf, image)} :
              \E env \in EnvsOf(clf.model) :
                LET out == classify_image_safe(clf, ext, env)
                IN  /\ result' = out.value
                    /\ trace' = out.trace
                    /\ clf' = out.self
                    /\ call' = [op |-> "classify_image_safe", image |-> image,
                                env |-> RecordedEnv(env, out.value)]
    /\ phase' = "returned"
    /\ UNCHANGED <<program, files, loads>>
    /\ HarnessUnchanged

\* classifier.classify_image(image_path)
ClassifyImage ==
    /\ phase = "ready"
    /\ program = "plain"
    /\ \E image \in Images :
          \E ext \in {extract_features(clf, image)} :
              \E env \in EnvsOf(clf.model) :
                LET out == classify_image(clf, ext, env)
                IN  /\ result' = out.value
                    /\ trace' = out.trace
                    /\ clf' = out.self
                    /\ call' = [op |-> "classify_image", image |-> image,
                                env |-> RecordedEnv(env, out.value)]
    /\ phase' = "returned"
    /\ UNCHANGED <<program, files, loads>>
    /\ HarnessUnchanged

\* predict_plant(image, model, classes, top_k)
PredictPlant ==
    /\ phase = "ready"
    /\ program = "inference"
    /\ \E image \in Images, model_path \in ModelPaths,
          classes_path \in ClassesPaths, top_k \in TopKs :
          \E env \in { e \in Envs(model_path.n) : e.fault \in {"none", "predict"} } :
             LET out == predict_plant(image, model_path, classes_path, top_k, env)
             IN  /\ result' = out.value
                 /\ trace' = out.trace
                 /\ call' = [op |-> "predict_plant", image |-> image,
                             top_k |-> top_k, env |-> RecordedEnv(env, out.value)]
    /\ phase' = "returned"
    /\ UNCHANGED <<program, files, clf, loads>>
    /\ HarnessUnchanged

\* The caller takes the returned value; the program is ready for the next call.
Return ==
    /\ phase = "returned"
    /\ phase' = "ready"
    /\ call' = NoCall
    /\ result' = NoResult
    /\ trace' = <<>>
    /\ UNCHANGED <<program, files, clf, loads>>
    /\ HarnessUnchanged

Next ==
    \/ Construct
    \/ ClassifyImageSafe
    \/ ClassifyImage
    \/ PredictPlant
    \/ Return

Spec == Init /\ [][Next]_vars

-----------------------------------------------------------------------------
(* The length reconciliation alone, on every small vector and width: the   *)
(* two places that truncate or pad, applied in any order up to MaxSteps     *)
(* times to one vector against one scaler.                                  *)

RECURSIVE Vectors(_)
Vectors(n) ==
    IF n = 0 THEN {<<>>}
    ELSE Vectors(n - 1) \cup
         { Append(v, x) : v \in { w \in Vectors(n - 1) : Len(w) = n - 1 }, x \in 0..MaxValue }

HarnessScalers ==
    [tag : {"scaler"}, width : 1..MaxExpected, has_n_features_in : BOOLEAN]

ProgramIdle ==
    /\ program = "none"
    /\ files = NoFiles
    /\ clf = NoObject
    /\ phase = "harness"
    /\ call = NoCall
    /\ result = NoResult
    /\ trace = <<>>
    /\ loads = <<>>

ProgramUnchanged ==
    UNCHANGED <<program, files, clf, phase, call, result, trace, loads>>

InitReconcile ==
    /\ ProgramIdle
    /\ rvec \in Vectors(MaxLen)
    /\ rscaler \in HarnessScalers
    /\ rcur = rvec
    /\ rfirst = rvec
    /\ rhist = <<>>
    /\ FeaturesIdle
    /\ ThreadsIdle
    /\ ScriptsIdle

\* The reconciliation of extract_features_robust, lines 109-117
ReconcileInExtract ==
    /\ Len(rhist) < MaxSteps
    /\ rcur' = truncate_or_pad(rcur, n_features_in(rscaler, None))
    /\ rfirst' = IF rhist = <<>> THEN rcur' ELSE rfirst
    /\ rhist' = Append(rhist, "extract")
    /\ UNCHANGED <<rvec, rscaler>>
    /\ ProgramUnchanged
    /\ FeaturesUnchanged
    /\ ThreadsUnchanged
    /\ ScriptsUnchanged

\* The reconciliation of the ValueError handler, lines 146-151
ReconcileOnError ==
    /\ Len(rhist) < MaxSteps
    /\ rcur' = truncate_or_pad_on_error(rcur, rscaler)
    /\ rfirst' = IF rhist = <<>> THEN rcur' ELSE rfirst
    /\ rhist' = Append(rhist, "handler")
    /\ UNCHANGED <<rvec, rscaler>>
    /\ ProgramUnchanged
    /\ FeaturesUnchanged
    /\ ThreadsUnchanged
    /\ ScriptsUnchanged

NextReconcile ==
    \/ ReconcileInExtract
    \/ ReconcileOnError

SpecReconcile == InitReconcile /\ [][NextReconcile]_vars

-----------------------------------------------------------------------------
(* The extraction alone, on images of every small source resolution and   *)
(* of one colour or varied: the vector each classifier builds before any   *)
(* reconciliation.  The object has no scaler here, so that                 *)
(* extract_features_robust returns the vector of line 106 as it is.        *)

\* What a decodable file may show; a picture of one pixel has one colour.
Pictures == Colors \cup {"varied"}

SourceImages ==
    {[decodable |-> FALSE, color |-> "none", height |-> 0, width |-> 0]} \cup
    { i \in [decodable : {TRUE}, color : Pictures,
             height : 1..MaxSide, width : 1..MaxSide] :
        i.color = "varied" => i.height * i.width > 1 }

Extractions == {"extract_features_robust", "extract_features"}

InitFeatures ==
    /\ ProgramIdle
    /\ ReconcileIdle
    /\ ThreadsIdle
    /\ ScriptsIdle
    /\ fin \in [op : Extractions, image : SourceImages]
    /\ raw = NoFeatures

\* ImprovedSklearnClassifier().extract_features_robust(image_path)
ExtractFeaturesRobust ==
    /\ raw = NoFeatures
    /\ fin.op = "extract_features_robust"
    /\ raw' = extract_features_robust(NoObject, fin.image).value
    /\ UNCHANGED fin
    /\ ProgramUnchanged
    /\ ReconcileUnchanged
    /\ ThreadsUnchanged
    /\ ScriptsUnchanged

\* SklearnPlantClassifier().extract_features(image_path)
ExtractFeatures ==
    /\ raw = NoFeatures
    /\ fin.op = "extract_features"
    /\ raw' = extract_features(NoObject, fin.image).value
    /\ UNCHANGED fin
    /\ ProgramUnchanged
    /\ ReconcileUnchanged
    /\ ThreadsUnchanged
    /\ ScriptsUnchanged

NextFeatures ==
    \/ ExtractFeaturesRobust
    \/ ExtractFeatures

SpecFeatures == InitFeatures /\ [][NextFeatures]_vars

-----------------------------------------------------------------------------
(* Concurrent calls of classify_image_safe on one shared object.  Each     *)
(* thread runs the statements of lines 125-188 in order; a step is one     *)
(* statement that reads self, together with the local computation up to   *)
(* the next one.  A step gives [self, local]: the shared object and the    *)
(* thread's local variables after it.  alone is the value the same call    *)
(* returns when it runs by itself on the object as constructed.            *)

Threads == {"t1", "t2"}

ConcurrentFiles ==
    { fs \in [ArtifactNames -> BOOLEAN] :
        /\ fs["Best_Model.pkl"] /\ fs["pca.pkl"] /\ fs["plant_info_trained.json"] }

ConcurrentPickles ==
    { pk \in Pickles("improved") :
        /\ pk.model.n = 2 /\ pk.model.labels = "range0"
        /\ \/ pk.scaler.has_n_features_in /\ pk.scaler.width = RawLength(img_size)
           \/ ~pk.scaler.has_n_features_in /\ pk.scaler.width = ExampleWidth }

ConcurrentImages == { i \in Images : i.color # "red" }

ConcurrentEnvs(model) ==
    { e \in EnvsOf(model) :
        /\ e.fault \in {"none", "pca"}
        /\ e.probabilities # <<>> => MaxOf(e.probabilities) = ProbDenom }

NewThread(self, image, env) ==
    [pc |-> "start", image |-> image, env |-> env,
     alone |-> classify_image_safe(self, extract_features_robust(self, image), env).value,
     features |-> NoFeatures, features_scaled |-> 0, features_pca |-> 0,
     prediction |-> None, probabilities |-> <<>>, result |-> NoResult]

Done(l, value) == [l EXCEPT !.pc = "done", !.result = value]

\* Line 127: if self.model is None
step_start(self, l) ==
    [self |-> self,
     local |-> IF self.model = None THEN Done(l, Failure("Models not loaded"))
               ELSE [l EXCEPT !.pc = "extract"]]

\* Lines 134-139: features = self.extract_features_robust(image_path)
step_extract(self, l) ==
    LET ext == extract_features_robust(self, l.image)
    IN  [self |-> self,
         local |-> IF ext.value = None THEN Done(l, Failure("Feature extraction failed"))
                   ELSE [l EXCEPT !.pc = "scale", !.features = ext.value]]

\* A variant with a fault: the ValueError handler marks the object as not
\* loaded.
step_scale_resets_model(self, l) ==
    LET r == scaler_transform(self.scaler, l.features.data, l.env.fault)
    IN  [self |-> IF except_ValueError(r) THEN [self EXCEPT !.model = None] ELSE self,
         local |-> IF except_ValueError(r) THEN [l EXCEPT !.pc = "rescale"]
                   ELSE IF Raised(r) THEN Done(l, classification_failed(r))
                   ELSE [l EXCEPT !.pc = "pca", !.features_scaled = r.value]]

\* Lines 142-144: features_scaled = self.scaler.transform(features)
step_scale(self, l) ==
    LET r == scaler_transform(self.scaler, l.features.data, l.env.fault)
    IN  [self |-> self,
         local |-> IF except_ValueError(r) THEN [l EXCEPT !.pc = "rescale"]
                   ELSE IF Raised(r) THEN Done(l, classification_failed(r))
                   ELSE [l EXCEPT !.pc = "pca", !.features_scaled = r.value]]

\* Lines 146-152: the handler reconciles and scales again
step_rescale(self, l) ==
    LET fixed == truncate_or_pad_on_error(l.features.data, self.scaler)
        r == scaler_transform(self.scaler, fixed, l.env.fault)
    IN  [self |-> self,
         local |-> IF Raised(r) THEN Done(l, classification_failed(r))
                   ELSE [l EXCEPT !.pc = "pca", !.features = Array(fixed),
                                  !.features_scaled = r.value]]

\* Line 155: features_pca = self.pca.transform(features_scaled)
step_pca(self, l) ==
    LET r == pca_transform(self.pca, l.features_scaled, l.env.fault)
    IN  [self |-> self,
         local |-> IF Raised(r) THEN Done(l, classification_failed(r))
                   ELSE [l EXCEPT !.pc = "predict", !.features_pca = r.value]]

\* Line 158: prediction = self.model.predict(features_pca)[0]
step_predict(self, l) ==
    LET r == model_predict(self.model, l.env)
    IN  [self |-> self,
         local |-> IF Raised(r) THEN Done(l, classification_failed(r))
                   ELSE [l EXCEPT !.pc = "predict_proba", !.prediction = r.value]]

\* Line 159: probabilities = self.model.predict_proba(features_pca)[0]
step_predict_proba(self, l) ==
    LET r == model_predict_proba(self.model, l.env)
    IN  [self |-> self,
         local |-> IF Raised(r) THEN Done(l, classification_failed(r))
                   ELSE [l EXCEPT !.pc = "build", !.probabilities = r.value]]

\* Lines 162-182: class_names, top_indices and the result dict
step_build(self, l) ==
    LET r == result_improved(self.model, l.prediction, l.probabilities, l.env.order)
    IN  [self |-> self,
         local |-> IF Raised(r) THEN Done(l, classification_failed(r))
                   ELSE Done(l, r.value)]

InitConcurrent ==
    /\ program = "improved"
    /\ files \in ConcurrentFiles
    /\ \E pk \in ConcurrentPickles :
          /\ clf = init_improved(files, pk).self
          /\ loads = init_improved(files, pk).loads
    /\ phase = "concurrent"
    /\ call = NoCall
    /\ result = NoResult
    /\ trace = <<>>
    /\ ReconcileIdle
    /\ FeaturesIdle
    /\ ScriptsIdle
    /\ th \in [Threads ->
                { NewThread(clf, image, env) :
                    image \in ConcurrentImages, env \in ConcurrentEnvs(clf.model) }]

\* Thread t takes the step out.
Take(t, out) ==
    /\ clf' = out.self
    /\ th' = [th EXCEPT ![t] = out.local]
    /\ UNCHANGED <<program, files, phase, call, result, trace, loads>>
    /\ ReconcileUnchanged
    /\ FeaturesUnchanged
    /\ ScriptsUnchanged

ThreadStart == \E t \in Threads : th[t].pc = "start" /\ Take(t, step_start(clf, th[t]))
ThreadExtract == \E t \in Threads : th[t].pc = "extract" /\ Take(t, step_extract(clf, th[t]))
ThreadScale == \E t \in Threads : th[t].pc = "scale" /\ Take(t, step_scale(clf, th[t]))
ThreadRescale == \E t \in Threads : th[t].pc = "rescale" /\ Take(t, step_rescale(clf, th[t]))
ThreadPca == \E t \in Threads : th[t].pc = "pca" /\ Take(t, step_pca(clf, th[t]))
ThreadPredict == \E t \in Threads : th[t].pc = "predict" /\ Take(t, step_predict(clf, th[t]))
ThreadPredictProba ==
    \E t \in Threads : th[t].pc = "predict_proba" /\ Take(t, step_predict_proba(clf, th[t]))
ThreadBuild == \E t \in Threads : th[t].pc = "build" /\ Take(t, step_build(clf, th[t]))

NextConcurrent ==
    \/ ThreadStart
    \/ ThreadExtract
    \/ ThreadScale
    \/ ThreadRescale
    \/ ThreadPca
    \/ ThreadPredict
    \/ ThreadPredictProba
    \/ ThreadBuild

SpecConcurrent == InitConcurrent /\ [][NextConcurrent]_vars

-----------------------------------------------------------------------------
(* The classes file: written by the training scripts, one label a line,    *)
(* and read back by load_model_and_classes.  A text is a sequence of       *)
(* tokens: a space, a line feed, or a run of characters without white     *)
(* space, such as "neem".                                                  *)

Whitespace == {" ", "\n"}

\* The class names of efficient_10_plant_training.py: PLANT_INFO[i]["name"]
PLANT_INFO ==
    <<"turmeric", "neem", "ginger", "aloe_vera", "tulsi",
      "ashwagandha", "amla", "mint", "fenugreek", "cinnamon">>

\* The class names of demo_train_10_plants.py
PLANT_CLASSES ==
    <<"turmeric", "neem", "ginger", "aloe_vera", "tulsi",
      "ashwagandha", "amla", "mint", "fenugreek", "cinnamon">>

\* The characters of the names of the class directories of train_model,
\* in the order of their code points.
NameChars == {"\n", " ", "a"}
CodePoint(c) == CASE c = "\n" -> 10 [] c = " " -> 32 [] c = "a" -> 97

DirNames == UNION { [1..k -> NameChars] : k \in 1..MaxNameLen }

\* s < t for two names, as Python compares strings
RECURSIVE NameLess(_, _)
NameLess(s, t) ==
    IF t = <<>> THEN FALSE
    ELSE IF s = <<>> THEN TRUE
    ELSE IF Head(s) = Head(t) THEN NameLess(Tail(s), Tail(t))
    ELSE CodePoint(Head(s)) < CodePoint(Head(t))

\* train_dataset.class_names: the names of the class directories, sorted
DirectoryClassNames ==
    { l \in UNION { [1..k -> DirNames] : k \in 1..MaxDirs } :
        \A i \in 1..(Len(l) - 1) : NameLess(l[i], l[i + 1]) }

TrainingScripts == {"train_efficient_model", "train_demo_model", "train_model"}

\* The class_names a training script saves.
class_names_saved(script) ==
    CASE script = "train_efficient_model" ->
            { [i \in 1..NUM_CLASSES |-> <<PLANT_INFO[i]>>] }
      [] script = "train_demo_model" ->
            { [i \in 1..Len(PLANT_CLASSES) |-> <<PLANT_CLASSES[i]>>] }
      [] script = "train_model" -> DirectoryClassNames

\* for name in class_names: f.write(f"{name}\n")
RECURSIVE write_class_names(_)
write_class_names(class_names) ==
    IF class_names = <<>> THEN <<>>
    ELSE Head(class_names) \o <<"\n">> \o write_class_names(Tail(class_names))

\* f.readlines(): the lines of the text, each with its line feed
RECURSIVE readlines(_)
readlines(text) ==
    IF text = <<>> THEN <<>>
    ELSE LET ends == { k \in 1..Len(text) : text[k] = "\n" }
         IN  IF ends = {} THEN <<text>>
             ELSE LET k == CHOOSE e \in ends : \A o \in ends : e <= o
                  IN  <<SubSeq(text, 1, k)>> \o readlines(SubSeq(text, k + 1, Len(text)))

\* str.lstrip() and str.strip()
RECURSIVE lstrip(_)
lstrip(s) == IF s # <<>> /\ Head(s) \in Whitespace THEN lstrip(Tail(s)) ELSE s
strip(s) == Reversed(lstrip(Reversed(lstrip(s))))

\* Line 20-21 of load_model_and_classes:
\* class_names = [line.strip() for line in f.readlines()]
read_class_names(text) ==
    LET lines == readlines(text)
    IN  [i \in 1..Len(lines) |-> strip(lines[i])]

AllIdleButScripts == ProgramIdle /\ ReconcileIdle /\ FeaturesIdle /\ ThreadsIdle
AllUnchangedButScripts ==
    ProgramUnchanged /\ ReconcileUnchanged /\ FeaturesUnchanged /\ ThreadsUnchanged

InitClassesFile ==
    /\ AllIdleButScripts
    /\ DatasetIdle /\ FitIdle /\ CliIdle
    /\ \E script \in TrainingScripts :
          \E class_names \in class_names_saved(script) :
             cfile = [op |-> script, pc |-> "trained", class_names |-> class_names,
                      text |-> <<>>, read |-> <<>>]

\* The training script saves its class names.
SaveClassNames ==
    /\ cfile.pc = "trained"
    /\ cfile' = [cfile EXCEPT !.pc = "saved",
                              !.text = write_class_names(cfile.class_names)]
    /\ UNCHANGED <<ds, fit, cli>>
    /\ AllUnchangedButScripts

\* load_model_and_classes reads the file.
LoadClassNames ==
    /\ cfile.pc = "saved"
    /\ cfile' = [cfile EXCEPT !.pc = "loaded", !.read = read_class_names(cfile.text)]
    /\ UNCHANGED <<ds, fit, cli>>
    /\ AllUnchangedButScripts

NextClassesFile ==
    \/ SaveClassNames
    \/ LoadClassNames

SpecClassesFile == InitClassesFile /\ [][NextClassesFile]_vars

-----------------------------------------------------------------------------
(* The synthetic datasets of train_efficient_model and train_demo_model    *)
(* and their 80/20 split.  Only the labels y are kept; X has one image a   *)
(* label, in the same order.                                               *)

\* samples_per_class / images_per_class
PerClass(script) ==
    IF script = "train_efficient_model" THEN samples_per_class ELSE images_per_class

\* int(0.8 * len(X)); 0.8 * n is exact for the multiples of 5 met here
split_idx_of(n) == (8 * n) \div 10

ClassesIn(y) == { y[k] : k \in 1..Len(y) }

InitDataset ==
    /\ AllIdleButScripts
    /\ ClassesFileIdle /\ FitIdle /\ CliIdle
    /\ \E script \in {"train_efficient_model", "train_demo_model"} :
          ds = [op |-> script, pc |-> "generate", class_id |-> 0, i |-> 0,
                y |-> <<>>, y_train |-> <<>>, y_val |-> <<>>]

\* One pass of the inner loop of create_efficient_dataset /
\* create_synthetic_dataset: y.append(class_id)
AppendSample ==
    /\ ds.pc = "generate"
    /\ ds.class_id < NUM_CLASSES
    /\ LET last == ds.i + 1 = PerClass(ds.op)
       IN  ds' = [ds EXCEPT !.y = Append(ds.y, ds.class_id),
                            !.i = IF last THEN 0 ELSE ds.i + 1,
                            !.class_id = IF last THEN ds.class_id + 1 ELSE ds.class_id]
    /\ UNCHANGED <<cfile, fit, cli>>
    /\ AllUnchangedButScripts

\* The split of train_efficient_model / train_demo_model
SplitData ==
    /\ ds.pc = "generate"
    /\ ds.class_id = NUM_CLASSES
    /\ LET split_idx == split_idx_of(Len(ds.y))
       IN  ds' = [ds EXCEPT !.pc = "split",
                            !.y_train = SubSeq(ds.y, 1, split_idx),
                            !.y_val = SubSeq(ds.y, split_idx + 1, Len(ds.y))]
    /\ UNCHANGED <<cfile, fit, cli>>
    /\ AllUnchangedButScripts

NextDataset ==
    \/ AppendSample
    \/ SplitData

SpecDataset == InitDataset /\ [][NextDataset]_vars

-----------------------------------------------------------------------------
(* The two fit calls of train_model.  model.fit(epochs=N, initial_epoch=k) *)
(* runs the epochs k, k+1, ..., N-1 unless a callback stops it; the        *)
(* EarlyStopping callback stops it after an epoch that ends `patience`     *)
(* epochs in a row without a better val_accuracy (the first epoch of a    *)
(* fit is always the best so far).                                         *)

\* EarlyStopping.on_epoch_end: the wait counter after an epoch
wait_after(wait, improved) == IF improved THEN 0 ELSE wait + 1

\* EarlyStopping.on_epoch_end: whether the fit stops after this epoch
stop_training(wait, epoch) == wait >= patience /\ epoch > 0

total_epochs == EPOCHS + fine_tune_epochs

InitFit ==
    /\ AllIdleButScripts
    /\ ClassesFileIdle /\ DatasetIdle /\ CliIdle
    /\ fit = [op |-> "train_model", pc |-> "fit", epoch |-> 0, wait |-> 0,
              history_epoch |-> <<>>, fine_epoch |-> <<>>]

\* One epoch of the first fit, lines 142-148
FitEpoch ==
    /\ fit.pc = "fit"
    /\ fit.epoch < EPOCHS
    /\ \E improved \in BOOLEAN :
          /\ fit.history_epoch = <<>> => improved
          /\ LET wait == wait_after(fit.wait, improved)
                 over == stop_training(wait, fit.epoch) \/ fit.epoch + 1 = EPOCHS
             IN  fit' = [fit EXCEPT !.pc = IF over THEN "fitted" ELSE "fit",
                                    !.epoch = fit.epoch + 1,
                                    !.wait = wait,
                                    !.history_epoch = Append(fit.history_epoch, fit.epoch)]
    /\ UNCHANGED <<cfile, ds, cli>>
    /\ AllUnchangedButScripts

\* Lines 150-169: the second fit starts at initial_epoch = history.epoch[-1]
StartFineTune ==
    /\ fit.pc = "fitted"
    /\ LET initial_epoch == fit.history_epoch[Len(fit.history_epoch)]
       IN  fit' = [fit EXCEPT !.pc = IF initial_epoch < total_epochs
                                     THEN "fine_tune" ELSE "done",
                              !.epoch = initial_epoch,
                              !.wait = 0]
    /\ UNCHANGED <<cfile, ds, cli>>
    /\ AllUnchangedButScripts

\* One epoch of the second fit, lines 166-173
FineTuneEpoch ==
    /\ fit.pc = "fine_tune"
    /\ fit.epoch < total_epochs
    /\ \E improved \in BOOLEAN :
          /\ fit.fine_epoch = <<>> => improved
          /\ LET wait == wait_after(fit.wait, improved)
                 over == stop_training(wait, fit.epoch) \/ fit.epoch + 1 = total_epochs
             IN  fit' = [fit EXCEPT !.pc = IF over THEN "done" ELSE "fine_tune",
                                    !.epoch = fit.epoch + 1,
                                    !.wait = wait,
                                    !.fine_epoch = Append(fit.fine_epoch, fit.epoch)]
    /\ UNCHANGED <<cfile, ds, cli>>
    /\ AllUnchangedButScripts

NextFit ==
    \/ FitEpoch
    \/ StartFineTune
    \/ FineTuneEpoch

SpecFit == InitFit /\ [][NextFit]_vars

-----------------------------------------------------------------------------
(* The command line of inference_script.py.  An argument that names a      *)
(* file is [path, exists, file]: the path given, whether os.path.exists    *)
(* finds it, and what the file holds.                                      *)

NoFile == [tag |-> "no file"]

PathArgs(path, contents) ==
    {[path |-> path, exists |-> FALSE, file |-> NoFile]} \cup
    [path : {path}, exists : {TRUE}, file : contents]

CliImages == PathArgs("leaf.jpg", { im \in Images : im.color # "red" })
CliModels == PathArgs("model.h5", ModelPaths)
CliClasses == PathArgs("classes.txt", ClassesPaths)

\* --top-k: the default, or 1
CliTopKs == {1, DEFAULT_TOP_K}

Args == [image : CliImages, model : CliModels, classes : CliClasses,
         top_k : CliTopKs, output : BOOLEAN]

\* print(json.dumps({'success': False, 'error': ...})); sys.exit(1)
not_found(what, arg) ==
    [stdout |-> <<[success |-> FALSE, error |-> what \o " file not found: " \o arg.path]>>,
     exit |-> IntLabel(1)]

\* A variant with a fault: the model path is checked before the image path.
validate_inputs_model_first(args) ==
    IF ~args.model.exists
    THEN [checked |-> <<"model">>, failed |-> TRUE,
          out |-> not_found("Model", args.model)]
    ELSE IF ~args.image.exists
    THEN [checked |-> <<"model", "image">>, failed |-> TRUE,
          out |-> not_found("Image", args.image)]
    ELSE IF ~args.classes.exists
    THEN [checked |-> <<"model", "image", "classes">>, failed |-> TRUE,
          out |-> not_found("Classes", args.classes)]
    ELSE [checked |-> <<"model", "image", "classes">>, failed |-> FALSE,
          out |-> [stdout |-> <<>>, exit |-> None]]

\* Lines 114-125 of main: [checked, failed, out], the paths tested with
\* os.path.exists in order, whether one was missing, and what was printed
\* with the exit status.
validate_inputs(args) ==
    IF ~args.image.exists
    THEN [checked |-> <<"image">>, failed |-> TRUE,
          out |-> not_found("Image", args.image)]
    ELSE IF ~args.model.exists
    THEN [checked |-> <<"image", "model">>, failed |-> TRUE,
          out |-> not_found("Model", args.model)]
    ELSE IF ~args.classes.exists
    THEN [checked |-> <<"image", "model", "classes">>, failed |-> TRUE,
          out |-> not_found("Classes", args.classes)]
    ELSE [checked |-> <<"image", "model", "classes">>, failed |-> FALSE,
          out |-> [stdout |-> <<>>, exit |-> None]]

InitCli ==
    /\ AllIdleButScripts
    /\ ClassesFileIdle /\ DatasetIdle /\ FitIdle
    /\ \E args \in Args :
          cli = [op |-> "main", pc |-> "parsed", args |-> args, checked |-> <<>>,
                 calls |-> <<>>, result |-> NoResult, stdout |-> <<>>,
                 written |-> <<>>, exit |-> None]

\* Lines 114-125: the three existence checks
ValidateInputs ==
    /\ cli.pc = "parsed"
    /\ LET v == validate_inputs(cli.args)
       IN  cli' = [cli EXCEPT !.pc = IF v.failed THEN "exited" ELSE "validated",
                              !.checked = v.checked,
                              !.stdout = v.out.stdout,
                              !.exit = v.out.exit]
    /\ UNCHANGED <<cfile, ds, fit>>
    /\ AllUnchangedButScripts

\* Line 128: result = predict_plant(args.image, args.model, args.classes, args.top_k)
RunPrediction ==
    /\ cli.pc = "validated"
    /\ LET a == cli.args
       IN  \E env \in { e \in Envs(a.model.file.n) : e.fault \in {"none", "predict"} } :
              cli' = [cli EXCEPT
                        !.pc = "predicted",
                        !.calls = Append(cli.calls, "predict_plant"),
                        !.result = predict_plant(a.image.file, a.model.file,
                                                 a.classes.file, a.top_k, env).value]
    /\ UNCHANGED <<cfile, ds, fit>>
    /\ AllUnchangedButScripts

\* Lines 131-135: the result goes to the --output file or to stdout; main
\* returns and the interpreter exits with status 0.
OutputResult ==
    /\ cli.pc = "predicted"
    /\ cli' = [cli EXCEPT
                 !.pc = "exited",
                 !.stdout = IF cli.args.output THEN cli.stdout
                            ELSE Append(cli.stdout, cli.result),
                 !.written = IF cli.args.output THEN <<cli.result>> ELSE cli.written,
                 !.exit = IntLabel(0)]
    /\ UNCHANGED <<cfile, ds, fit>>
    /\ AllUnchangedButScripts

NextCli ==
    \/ ValidateInputs
    \/ RunPrediction
    \/ OutputResult

SpecCli == InitCli /\ [][NextCli]_vars

-----------------------------------------------------------------------------
(* The claims.  Unless said otherwise a claim is about the states of Spec   *)
(* in which a call has just returned.                                       *)

PickleNames == {"Best_Model.pkl", "pca.pkl", "scaler.pkl"}

SafeCall == phase = "returned" /\ call.op = "classify_image_safe"
SklearnCall == phase = "returned" /\ call.op \in {"classify_image_safe", "classify_image"}

Top == result.top_predictions
Probabilities == call.env.probabilities
TopIndexSet == { Top[k].index : k \in 1..Len(Top) }
RequestedK == IF call.op = "predict_plant" THEN call.top_k ELSE TOP_N

ScalerEvents == { k \in 1..Len(trace) : trace[k].stage = "scaler.transform" }

\* C1: with all three artifacts loaded and a decodable image,
\* classify_image_safe calls scaler.transform, and every vector it passes
\* has length exactly W, the width the scaler was fitted on, whether the
\* raw vector of 3*64*64+16 entries is shorter than, as long as or longer
\* than W, and whether or not the scaler object carries n_features_in_.
C1_ScalerInputHasFittedWidth ==
    (/\ SafeCall
     /\ \A f \in PickleNames : files[f]
     /\ call.image.decodable)
    => /\ ScalerEvents # {}
       /\ \A k \in ScalerEvents : trace[k].arg = clf.scaler.width

\* C2: when one or more of Best_Model.pkl, pca.pkl, scaler.pkl cannot be
\* loaded, every classify_image_safe call returns a dict with success false
\* (it returns; nothing is raised), for any image.
C2_UnavailableAlwaysFails ==
    (SafeCall /\ \E f \in PickleNames : ~files[f])
    => /\ result.tag = "dict"
       /\ "success" \in result.keys
       /\ ~result.success

C2_Witness_ScalerMissing ==
    /\ SafeCall
    /\ files["Best_Model.pkl"] /\ files["pca.pkl"] /\ ~files["scaler.pkl"]
    /\ call.image.decodable
    /\ result.error = "Models not loaded"

\* C3: in every successful result of classify_image_safe, classify_image and
\* predict_plant, the confidences of top_predictions never increase from one
\* entry to the next.
C3_TopSortedNonIncreasing ==
    (phase = "returned" /\ Succeeded(result))
    => \A k \in 1..(Len(Top) - 1) : Top[k].confidence >= Top[k + 1].confidence

C3_Witness_ThreeRanked ==
    /\ SafeCall
    /\ Succeeded(result)
    /\ Len(Top) = TOP_N
    /\ Top[1].confidence > Top[2].confidence
    /\ Top[2].confidence > Top[3].confidence

\* C4: among classes of equal probability the lower class index comes first
\* in top_predictions, and of classes tied across the top-K cut the
\* lower-indexed one is kept (for a requested K of 1 or more).
C4_TiesByAscendingIndex ==
    (phase = "returned" /\ Succeeded(result) /\ RequestedK >= 1)
    => /\ \A k, l \in 1..Len(Top) :
            (k < l /\ Top[k].confidence = Top[l].confidence)
                => Top[k].index < Top[l].index
       /\ \A k \in 1..Len(Top), j \in 0..(Len(Probabilities) - 1) :
            (j \notin TopIndexSet /\ At(Probabilities, j) = At(Probabilities, Top[k].index))
                => Top[k].index < j

\* C5: top_predictions has exactly min(K, n) entries, the K most probable
\* classes: K = 3 in the two sklearn classifiers, K = top_k >= 0 in
\* predict_plant.
C5_TopKHoldsKBest ==
    (phase = "returned" /\ Succeeded(result) /\ RequestedK >= 0)
    => /\ Len(Top) = Min(RequestedK, Len(Probabilities))
       /\ \A k \in 1..Len(Top), j \in 0..(Len(Probabilities) - 1) :
            j \notin TopIndexSet
                => At(Probabilities, j) <= At(Probabilities, Top[k].index)

\* The label the result should carry for class index i.
LabelOfClass(i) ==
    IF call.op = "classify_image_safe"
    THEN At(class_names_of(clf.model, Probabilities), i)
    ELSE Text("plant", i)

\* C6: in every successful result of the two sklearn classifiers,
\* predicted_class is the label of a class of highest probability and
\* confidence is that probability times 100, whatever labels the model has.
C6_PredictedIsMostProbable ==
    (SklearnCall /\ Succeeded(result))
    => /\ result.confidence = MaxOf(Probabilities) * 100
       /\ \E i \in 0..(Len(Probabilities) - 1) :
            /\ At(Probabilities, i) = MaxOf(Probabilities)
            /\ result.predicted_class = LabelOfClass(i)

\* C7: in every successful result of the two sklearn classifiers every
\* confidence lies in [0, 100], and the top-level confidence equals the
\* largest confidence in top_predictions.
C7_ConfidenceRangeAndMaximum ==
    (SklearnCall /\ Succeeded(result))
    => /\ result.confidence \in 0..(100 * ProbDenom)
       /\ \A k \in 1..Len(Top) : Top[k].confidence \in 0..(100 * ProbDenom)
       /\ \E k \in 1..Len(Top) : Top[k].confidence = result.confidence
       /\ \A k \in 1..Len(Top) : Top[k].confidence <= result.confidence

\* The length the reconciliation aims at: the width the scaler reports, or
\* the vector's own length when it reports none.
ExpectedLength == IF rscaler.has_n_features_in THEN rscaler.width ELSE Len(rvec)

\* C8 (SpecReconcile): reconciling a vector v against the expected length W
\* gives W entries: the first min(len(v), W) entries of v, unchanged and in
\* order, followed by zeros only.
C8_TruncateKeepsPrefixPadAppendsZeros ==
    rhist # <<>>
    => /\ Len(rcur) = ExpectedLength
       /\ \A i \in 1..Len(rcur) :
            rcur[i] = IF i <= Len(rvec) THEN rvec[i] ELSE 0

C8_Witness_Truncated ==
    /\ rhist = <<"extract">>
    /\ rscaler.has_n_features_in
    /\ Len(rvec) = MaxLen
    /\ rscaler.width < Len(rvec)
    /\ rvec[1] # rvec[MaxLen]
    /\ rcur = SubSeq(rvec, 1, rscaler.width)

\* C9 (SpecReconcile): reconciling again with the same scaler changes
\* nothing: after two or more reconciliation steps, in either place and in
\* any order, the vector is the one the first step gave.
C9_ReconcileIdempotent ==
    Len(rhist) >= 2 => rcur = rfirst

C9_Witness_HandlerAfterExtract ==
    /\ rhist = <<"extract", "handler">>
    /\ rscaler.has_n_features_in
    /\ Len(rvec) < rscaler.width
    /\ Len(rcur) = rscaler.width
    /\ rcur = rfirst

\* C10: classify_image_safe on a file that does not decode returns a dict
\* with success false and a non-empty error, whether or not the artifacts
\* loaded.
C10_UndecodableImageFailsCleanly ==
    (SafeCall /\ ~call.image.decodable)
    => /\ result.tag = "dict"
       /\ {"success", "error"} \subseteq result.keys
       /\ ~result.success
       /\ result.error # ""

C10_Witness_LoadedUndecodable ==
    /\ SafeCall
    /\ ~call.image.decodable
    /\ clf.model # None
    /\ result.error = "Feature extraction failed"

\* C11: every call that fails returns a tagged failure, a dict with success
\* false and an error, and the operations inside predict_plant do the same
\* instead of raising (here: preprocess_image, when predict_plant called it
\* on the image of the call).
C11_FailuresAreTagged ==
    /\ (phase = "returned" /\ ~Succeeded(result))
        => /\ result.tag = "dict"
           /\ {"success", "error"} \subseteq result.keys
           /\ ~result.success
    /\ (/\ phase = "returned"
         /\ call.op = "predict_plant"
         /\ \E k \in 1..Len(trace) : trace[k].stage = "Image.open")
        => ~Raised(preprocess_image(call.image))

PartialCall == phase = "returned" /\ call.op \in {"classify_image_safe", "predict_plant"}

\* C12: every value returned by classify_image_safe and predict_plant is a
\* dict that is either a complete success (success true, a predicted_class,
\* a confidence, a ranked top_predictions, no error) or a clean failure
\* (success false, an error message, no predicted label and no entry in
\* top_predictions).
C12_NoPartialResults ==
    PartialCall
    => /\ result.tag = "dict"
       /\ "success" \in result.keys
       /\ IF result.success
          THEN /\ {"predicted_class", "confidence", "top_predictions"} \subseteq result.keys
               /\ "error" \notin result.keys
               /\ result.predicted_class # None
               /\ \A k \in 1..(Len(Top) - 1) : Top[k].confidence >= Top[k + 1].confidence
          ELSE /\ "error" \in result.keys
               /\ result.error # ""
               /\ result.predicted_class = None
               /\ result.top_predictions = <<>>

C12_Witness_FailedAfterPredict ==
    /\ PartialCall
    /\ call.op = "predict_plant"
    /\ ~result.success
    /\ Len(trace) = 3
    /\ trace[3].stage = "model.predict"
    /\ result.error = "list index out of range"

\* C13: with the classifier loaded, a decodable image and no library call
\* failing for another reason, a classification never stops at the scaler
\* because of the vector's length: scaling completes and the PCA is
\* reached, whatever width the scaler was fitted on and whether or not it
\* exposes n_features_in_.
C13_NoDimensionMismatchFailure ==
    (/\ SklearnCall
     /\ clf.model # None
     /\ call.image.decodable
     /\ call.env.fault = "none")
    => \E k \in 1..Len(trace) : trace[k].stage = "pca.transform"

StageOrder ==
    <<"cv2.imread", "reconcile", "scaler.transform", "pca.transform",
      "model.predict", "model.predict_proba">>

\* C14: the stages of a call of classify_image_safe or classify_image run
\* in the order decode and extract, reconcile, scaler transform, PCA
\* transform, predict, predict_proba: the stages run are a prefix of that
\* list (none is skipped or repeated, none runs after a failed one), and a
\* successful call ran them all.
C14_StagesInFixedOrder ==
    SklearnCall
    => /\ Len(trace) <= Len(StageOrder)
       /\ \A k \in 1..Len(trace) : trace[k].stage = StageOrder[k]
       /\ Succeeded(result) => Len(trace) = Len(StageOrder)

RetryStages ==
    {"cv2.imread", "Image.open", "scaler.transform", "pca.transform",
     "model.predict", "model.predict_proba"}

Attempts(stage) == Cardinality({ k \in 1..Len(trace) : trace[k].stage = stage })

C16_ClassifyLeavesObjectUnchanged ==
    [][(phase = "ready" /\ phase' = "returned") => clf' = clf]_vars

C16_Witness_FailedCallOnLoadedObject ==
    /\ SafeCall
    /\ clf.model # None /\ clf.pca # None /\ clf.scaler # None
    /\ call.image.decodable
    /\ call.env.fault = "pca"
    /\ result.error = "Classification failed: pca object is not usable"

LoadStages == { LoadEvent(f).stage : f \in ArtifactNames }

LoadsOf(f) == { k \in 1..Len(loads) : loads[k] = LoadEvent(f) }

\* C18: the artifacts are loaded once per object, by the constructor: the
\* constructor tries each file at most once (each pickle exactly once when
\* all three load), and after construction no step loads anything, no call
\* has a load among its library calls, and the object stays available if it
\* was available and unavailable if it was not.
C18_LoadedOnceInConstructor ==
    [][/\ (phase = "new")
            => /\ \A f \in ArtifactNames :
                    Cardinality({ k \in 1..Len(loads') : loads'[k] = LoadEvent(f) }) <= 1
               /\ (\A f \in PickleNames : files[f])
                    => \A f \in PickleNames : \E k \in 1..Len(loads') : loads'[k] = LoadEvent(f)
       /\ (phase # "new")
            => /\ loads' = loads
               /\ \A k \in 1..Len(trace') : trace'[k].stage \notin LoadStages
               /\ (clf'.model = None) <=> (clf.model = None)
      ]_vars

C18_Witness_StaysUnavailable ==
    /\ SafeCall
    /\ files["Best_Model.pkl"] /\ ~files["pca.pkl"]
    /\ Cardinality(LoadsOf("Best_Model.pkl")) = 1
    /\ Cardinality(LoadsOf("pca.pkl")) = 1
    /\ LoadsOf("scaler.pkl") = {}
    /\ clf.model = None
    /\ result.error = "Models not loaded"

\* C19: the constructor always builds an object, whichever artifact files
\* are missing: the object is available exactly when the three pickles
\* loaded, and in ImprovedSklearnClassifier load_plant_info runs in every
\* case, so plant_info follows its own file only.
C19_ConstructorAlwaysBuilds ==
    (phase \in {"ready", "returned"} /\ program \in {"improved", "plain"})
    => /\ clf # NoObject
       /\ (clf.model = None) <=> (\E f \in PickleNames : ~files[f])
       /\ program = "improved"
            => /\ LoadsOf("plant_info_trained.json") # {}
               /\ clf.plant_info =
                    IF files["plant_info_trained.json"] THEN "loaded" ELSE "empty"

C19_Witness_DegradedWithPlantInfo ==
    /\ phase = "ready"
    /\ program = "improved"
    /\ ~files["Best_Model.pkl"] /\ files["plant_info_trained.json"]
    /\ clf.model = None
    /\ clf.plant_info = "loaded"

Resolution == IF fin.op = "extract_features" THEN IMG_SIZE_PLAIN ELSE img_size

Extracted == raw # NoFeatures /\ raw # None

\* The image the features are taken from: the decoded file resized to
\* Resolution x Resolution.
ResizedSource == resize(imread(fin.image), <<Resolution, Resolution>>)

\* C20 (SpecFeatures): the vector built before reconciliation has
\* 3*R*R + 16 entries, R = 64 in extract_features_robust and R = 128 in
\* extract_features, whatever the image shows (one colour or varied) and
\* whatever its source resolution.  Entry 3*(row*R + col) + ch + 1 is
\* channel ch of pixel (row, col) of the RGB conversion of the resized
\* image; the 16 entries after the pixels are, in this order, the three
\* channel means of its HSV conversion, the three HSV deviations, the three
\* LAB means, the three LAB deviations, then the mean and the deviation of
\* the Sobel-x response of its grey conversion and the mean and the
\* deviation of the Sobel-y response.
C20_RawVectorLengthAndOrder ==
    Extracted
    => LET R == Resolution
           v == raw.data
           n == 3 * R * R
           rgb == cvtColor(ResizedSource, "RGB")
           hsv == cvtColor(ResizedSource, "HSV")
           lab == cvtColor(ResizedSource, "LAB")
           gray == cvtColor(ResizedSource, "GRAY")
       IN  /\ Len(v) = n + 16
           /\ \A row \in 0..(R - 1) : \A col \in 0..(R - 1) : \A ch \in 0..2 :
                v[3 * (row * R + col) + ch + 1] = element(rgb, row, col, ch)
           /\ \A c \in 1..3 :
                /\ v[n + c] = mean_axis01(hsv)[c]
                /\ v[n + 3 + c] = std_axis01(hsv)[c]
                /\ v[n + 6 + c] = mean_axis01(lab)[c]
                /\ v[n + 9 + c] = std_axis01(lab)[c]
           /\ v[n + 13] = mean(Sobel(gray, 1, 0))
           /\ v[n + 14] = std(Sobel(gray, 1, 0))
           /\ v[n + 15] = mean(Sobel(gray, 0, 1))
           /\ v[n + 16] = std(Sobel(gray, 0, 1))

\* A varied picture of non-square source resolution went through
\* extract_features_robust: its HSV and LAB deviations and its four Sobel
\* statistics are six different kinds of entry.
C20_Witness_VariedNonSquareSource ==
    /\ Extracted
    /\ fin.op = "extract_features_robust"
    /\ fin.image.color = "varied"
    /\ fin.image.height # fin.image.width
    /\ Len(raw.data) = RawLength(img_size)
    /\ raw.data[RawLength(img_size) - 12] # raw.data[RawLength(img_size) - 6]
    /\ Cardinality({ raw.data[k] : k \in (RawLength(img_size) - 3)..RawLength(img_size) }) = 4

\* C17 (SpecConcurrent): with calls of classify_image_safe running
\* concurrently on one object, under every interleaving of their steps, no
\* step changes the shared object, and every call that has returned
\* returned the value the same call returns when it runs alone.
C17_ConcurrentCallsReturnAsAlone ==
    [][/\ clf' = clf
       /\ \A t \in Threads : th'[t].pc = "done" => th'[t].result = th'[t].alone
      ]_vars

C17_Witness_InterleavedDifferentResults ==
    /\ phase = "concurrent"
    /\ th["t1"].pc = "done" /\ th["t2"].pc = "pca"
    /\ th["t1"].result.success
    /\ th["t2"].env.fault = "pca"
    /\ th["t1"].result = th["t1"].alone

\* C21 (SpecFeatures): for an all-black image the last 16 entries of the
\* vector extract_features_robust builds before reconciliation (HSV mean
\* and deviation, LAB mean and deviation, Sobel statistics) are all zero.
C21_BlackImageTailIsZero ==
    (Extracted /\ fin.op = "extract_features_robust" /\ fin.image.color = "black")
    => SubSeq(raw.data, Len(raw.data) - 15, Len(raw.data)) = Zeros(16)

\* C22: classify_image_safe on an object whose load failed returns the
\* 'Models not loaded' failure whatever the image is, and attempts nothing
\* before returning: no image read, no scaler, PCA or model call.
C22_UnavailableWinsOverUndecodable ==
    (SafeCall /\ clf.model = None)
    => /\ result = Failure("Models not loaded")
       /\ trace = <<>>

C22_Witness_UnavailableAndUndecodable ==
    /\ SafeCall
    /\ ~files["scaler.pkl"]
    /\ clf.model = None
    /\ ~call.image.decodable
    /\ result.error = "Models not loaded"
    /\ trace = <<>>

PredictCall == phase = "returned" /\ call.op = "predict_plant"

StagesTried == { trace[k].stage : k \in 1..Len(trace) }

\* C23: predict_plant always returns a dict; when the image cannot be
\* preprocessed or the model call fails the dict is a failure, and every
\* failure, a label lookup past the end of the class list included, has
\* success false, a non-empty error, predicted_class None, confidence 0
\* and no top_predictions.
C23_PredictPlantNeverRaises ==
    PredictCall
    => /\ result.tag = "dict"
       /\ "success" \in result.keys
       /\ ("Image.open" \in StagesTried /\ ~call.image.decodable) => ~result.success
       /\ ("model.predict" \in StagesTried /\ call.env.fault = "predict") => ~result.success
       /\ ~result.success
            => /\ "error" \in result.keys
               /\ result.error # ""
               /\ result.predicted_class = None
               /\ result.confidence = 0
               /\ result.top_predictions = <<>>

C23_Witness_ShortClassesFile ==
    /\ PredictCall
    /\ call.image.decodable
    /\ call.top_k = DEFAULT_TOP_K
    /\ call.env.fault = "none"
    /\ "model.predict" \in StagesTried
    /\ ~result.success
    /\ result.error = "list index out of range"

\* C25: in every successful result with at least one entry in
\* top_predictions (predict_plant: top_k >= 1), predicted_class is the
\* label of the first entry, ties for the highest probability included.
C25_PredictedIsFirstOfTop ==
    (phase = "returned" /\ Succeeded(result) /\ RequestedK >= 1)
    => /\ Len(Top) >= 1
       /\ result.predicted_class = Top[1].plant

\* C26: once constructed, an sklearn classifier has a model only when it
\* has a pca and a scaler too, so that no call reaches scaler.transform or
\* pca.transform on a missing transformer.
C26_ModelImpliesTransformers ==
    (program \in {"improved", "plain"} /\ phase \in {"ready", "returned"})
    => /\ clf.model # None => (clf.pca # None /\ clf.scaler # None)
       /\ \A k \in 1..Len(trace) :
            /\ trace[k].stage = "scaler.transform" => clf.scaler # None
            /\ trace[k].stage = "pca.transform" => clf.pca # None

C26_Witness_ScalerLoadFailed ==
    /\ program = "plain"
    /\ phase = "returned"
    /\ files["Best_Model.pkl"] /\ files["pca.pkl"] /\ ~files["scaler.pkl"]
    /\ clf.model = None
    /\ clf.pca # None
    /\ clf.scaler = None
    /\ trace = <<>>

\* C24 (SpecClassesFile): the list load_model_and_classes reads from a
\* classes file equals the list the training script wrote to it: the same
\* length, and the same label at every class index.
C24_ClassNamesRoundTrip ==
    (cfile.op \in TrainingScripts /\ cfile.pc = "loaded")
    => /\ Len(cfile.read) = Len(cfile.class_names)
       /\ \A i \in 1..Len(cfile.class_names) : cfile.read[i] = cfile.class_names[i]

\* C27 (SpecDataset): after the 80/20 split by position, the training part
\* and the validation part each hold a sample of every one of the classes.
C27_BothPartsHoldEveryClass ==
    (ds.op \in {"train_efficient_model", "train_demo_model"} /\ ds.pc = "split")
    => /\ ClassesIn(ds.y_train) = 0..(NUM_CLASSES - 1)
       /\ ClassesIn(ds.y_val) = 0..(NUM_CLASSES - 1)

FirstMissing ==
    LET a == cli.args
    IN  IF ~a.image.exists THEN not_found("Image", a.image)
        ELSE IF ~a.model.exists THEN not_found("Model", a.model)
        ELSE not_found("Classes", a.classes)

AllExist == cli.args.image.exists /\ cli.args.model.exists /\ cli.args.classes.exists

\* C28 (SpecCli): main tests the image, model and classes paths in that
\* order.  With a path missing it prints one {success: false, error} object
\* naming the first missing path, exits with status 1 and never calls
\* predict_plant; predict_plant is called only when all three exist, and
\* then once.
C28_PathsCheckedInOrderBeforePredicting ==
    (cli.op = "main" /\ cli.pc # "parsed")
    => /\ \E k \in 1..3 : cli.checked = SubSeq(<<"image", "model", "classes">>, 1, k)
       /\ cli.calls # <<>> => AllExist
       /\ ~AllExist
            => /\ cli.pc = "exited"
               /\ cli.stdout = FirstMissing.stdout
               /\ cli.exit = IntLabel(1)
               /\ cli.calls = <<>>
               /\ cli.written = <<>>
       /\ (AllExist /\ cli.pc = "exited")
            => /\ cli.calls = <<"predict_plant">>
               /\ cli.exit = IntLabel(0)

C28_Witness_ModelMissingClassesMissing ==
    /\ cli.op = "main"
    /\ cli.pc = "exited"
    /\ cli.args.image.exists /\ ~cli.args.model.exists /\ ~cli.args.classes.exists
    /\ cli.checked = <<"image", "model">>
    /\ cli.stdout = <<[success |-> FALSE, error |-> "Model file not found: model.h5"]>>
    /\ cli.exit = IntLabel(1)
    /\ cli.calls = <<>>

\* C29 (SpecFit): the second fit of train_model runs at most
\* fine_tune_epochs epochs, and the two fits together at most
\* EPOCHS + fine_tune_epochs, at whatever epoch the first fit ended.
C29_FineTuningEpochsBounded ==
    fit.op = "train_model"
    => /\ Len(fit.fine_epoch) <= fine_tune_epochs
       /\ Len(fit.history_epoch) + Len(fit.fine_epoch) <= EPOCHS + fine_tune_epochs

====
